---------------------------- MODULE Spec2Model ----------------------------
(***************************************************************************)
(* A model of .github/notion_sync.py: the transport layer with bounded     *)
(* retries, the record builders and the four domain operations, the CSV    *)
(* bulk import and the queued-command replay (run_sync).                   *)
(*                                                                         *)
(* Python values are written as follows.  None is the token NoneVal and a  *)
(* key that a dict does not hold is the token NoKey; no input string       *)
(* equals either.  A one-level dict such as {"url": u} is the set of its   *)
(* items, {[key |-> "url", val |-> u]}, so that the empty dict {} is the   *)
(* empty set.  A timestamp is [kind, t, tz]: t counts hours on the model's *)
(* time axis, tz is the suffix of the ISO-8601 text.                       *)
(***************************************************************************)
EXTENDS Integers, Sequences, FiniteSets, TLC

\* ------------------------------------------------------------------ bounds
MaxLen    == 2   \* entries in a queue file
MaxPasses == 2   \* invocations of run_sync in one behaviour
MaxClock  == 3   \* the last hour the wall clock reaches
MaxRows   == 3   \* data rows in a CSV file
MaxCalls  == 2   \* requests made one after another through the transport layer

\* ------------------------------------------------------- program constants
RETRIES      == 3   \* retries: int=3
BACKOFF      == 1   \* backoff: float=1.0
TWO_HOURS    == 2   \* timedelta(hours=2)

DB_JOB_APPS   == "2c356c757b0780968c5cc58ea0ef1b30"
DB_NETWORKING == "2c356c757b0780f19699c11e1f5e7db1"
DB_INTERVIEWS == "2c356c757b07803f91d5f1836877fc7b"
DB_FOLLOWUPS  == "2c456c757b07807b82aefb0c868a58d4"

DEFAULT_THREADS_PATH == "project_threads.json"
OTHER_THREADS_PATH   == "other_threads.json"
Paths == {DEFAULT_THREADS_PATH, OTHER_THREADS_PATH}

NoneVal == "<None>"
NoKey   == "<no key>"

\* Python truthiness of an optional string: None and "" are falsy.
Truthy(s) == s # NoneVal /\ s # NoKey /\ s # ""

\* d.get(key, default) on a field that holds NoKey when the key is absent.
Get(v, default) == IF v = NoKey THEN default ELSE v

\* --------------------------------------------------------- record builders
Item(k, v) == [key |-> k, val |-> v]

title_prop(text) == {Item("title", text)}

rich_text_prop(text) == {Item("rich_text", text)}

select_prop(name) == {Item("select", name)}

date_prop(iso) == IF Truthy(iso) THEN {Item("date", iso)} ELSE {Item("date", NoneVal)}

url_prop(url) == IF Truthy(url) THEN {Item("url", url)} ELSE {}

checkbox_prop(value) == {Item("checkbox", IF value THEN "true" ELSE "false")}

relation_prop(page_id) == IF Truthy(page_id) THEN {Item("relation", page_id)} ELSE {}

email_prop(email) == IF Truthy(email) THEN {Item("email", email)} ELSE {}

\* -------------------------------------------------------- domain payloads
\* The payload each domain operation hands to notion_post("/pages", payload).
\* now_iso stands for datetime.now(timezone.utc).isoformat().
create_job_application(company, role, jd_summary, jd_link, location, salary_range, priority) ==
    [parent |-> DB_JOB_APPS,
     properties |->
       [Company |-> title_prop(company),
        Role |-> rich_text_prop(role),
        DateApplied |-> date_prop("now_iso"),
        Status |-> select_prop("Applied"),
        JDSummary |-> rich_text_prop(jd_summary),
        JDLink |-> url_prop(jd_link),
        Location |-> rich_text_prop(location),
        SalaryRange |-> rich_text_prop(salary_range),
        Priority |-> select_prop(priority)]]

add_network_contact(name, company, role, linkedin, email, status) ==
    [parent |-> DB_NETWORKING,
     properties |->
       [Name |-> title_prop(name),
        Company |-> rich_text_prop(company),
        Role |-> rich_text_prop(role),
        LinkedIn |-> url_prop(linkedin),
        Email |-> email_prop(email),
        Status |-> select_prop(status),
        LastContacted |-> date_prop(NoneVal)]]

add_interview(application_page_id, stage, interviewer, date_iso, notes, outcome) ==
    [parent |-> DB_INTERVIEWS,
     properties |->
       [Application |-> relation_prop(application_page_id),
        Stage |-> select_prop(stage),
        Interviewer |-> rich_text_prop(interviewer),
        Date |-> date_prop(date_iso),
        Notes |-> rich_text_prop(notes),
        Outcome |-> select_prop(outcome)]]

add_followup(task, related_application_page_id, due_date_iso, completed, notes) ==
    [parent |-> DB_FOLLOWUPS,
     properties |->
       [Task |-> title_prop(task),
        RelatedApplication |->
            IF Truthy(related_application_page_id)
            THEN relation_prop(related_application_page_id) ELSE {},
        DueDate |-> IF Truthy(due_date_iso) THEN date_prop(due_date_iso) ELSE {},
        Completed |-> checkbox_prop(completed),
        Notes |-> rich_text_prop(notes)]]

NoPayload == [parent |-> "", properties |-> [none |-> {}]]

\* ------------------------------------------------------- queue file entries
\* last_updated as the file holds it: no such key, a text that is no ISO-8601
\* timestamp, or an ISO-8601 timestamp of hour t with suffix tz ("Z",
\* "+00:00", or "" for a timestamp without UTC offset).
LU(kind, t, tz) == [kind |-> kind, t |-> t, tz |-> tz]

LastUpdatedValues ==
    {LU("absent", 0, ""), LU("text", 0, ""), LU("iso", 0, ""),
     LU("iso", 0, "Z"), LU("iso", 1, "+00:00"), LU("iso", MaxClock, "Z")}

\* content as the file holds it (a string that embeds the action descriptor).
C_BLANK    == "  "
C_BAD      == "{not json"
C_EMPTY    == "{}"
C_LIST     == "[1]"
C_FOLLOWUP == "{action:add_followup,task:ping recruiter}"
C_APP      == "{action:create_application,company:Acme,role:PM}"
C_CONTACT  == "{action:add_network_contact,name:Dana}"
C_UNKNOWN  == "{action:archive}"
ContentValues ==
    {C_BLANK, C_BAD, C_EMPTY, C_LIST, C_FOLLOWUP, C_APP, C_CONTACT, C_UNKNOWN}

Entry(id, lu, synced, content) ==
    [thread_id |-> id, last_updated |-> lu, synced |-> synced, content |-> content]

\* The entries a queue file is drawn from: an entry that is due when the
\* clock starts (Due0), and that entry with one field changed at a time.
Due0 == LU("iso", 0, "Z")

Entries ==
    {Entry("t1", lu, "false", IF lu.t = 1 THEN C_APP ELSE C_FOLLOWUP) : lu \in LastUpdatedValues}
    \cup {Entry("t1", Due0, "true", C_FOLLOWUP)}
    \cup {Entry("t1", Due0, "false", c) : c \in {C_BLANK, C_BAD, C_LIST, C_UNKNOWN}}
    \cup {Entry("t2", Due0, NoKey, C_CONTACT), Entry(NoKey, Due0, "false", C_EMPTY)}

QueueLists == UNION {[1..n -> Entries] : n \in 0..MaxLen}

\* t["last_updated"].replace("Z", "+00:00")
ReplaceZ(lu) == IF lu.tz = "Z" THEN [lu EXCEPT !.tz = "+00:00"] ELSE lu

\* datetime.fromisoformat on the replaced text: ok is FALSE where it raises
\* ValueError; aware tells whether the datetime carries a UTC offset.
fromisoformat(lu) ==
    [ok |-> lu.kind = "iso" /\ lu.tz \in {"", "+00:00"}, t |-> lu.t, aware |-> lu.tz = "+00:00"]

\* Line 312 as a whole: the subscript raises KeyError on a missing key.
ParseLastUpdated(t) ==
    IF t.last_updated.kind = "absent"
    THEN [ok |-> FALSE, t |-> 0, aware |-> FALSE]
    ELSE fromisoformat(ReplaceZ(t.last_updated))

\* not synced, with synced = t.get("synced", False)
NotSynced(t) == Get(t.synced, "false") # "true"

\* A comparison that leaves out the age of exactly two hours.
OldEnough_Strict(now_, last) == now_ - last.t > TWO_HOURS

\* (now - last_updated) >= two_hours, for an aware last_updated
OldEnough(now_, last) == now_ - last.t >= TWO_HOURS

\* content.strip() is non-empty
StripNonEmpty(content) == content # "" /\ content # C_BLANK

\* A parser that takes text it cannot parse for an empty descriptor.
json_loads_Lenient(content) ==
    LET c == Get(content, "") IN
    IF ~StripNonEmpty(c) \/ c = C_BAD \/ c = C_EMPTY
    THEN [exc |-> "", truthy |-> FALSE, isdict |-> TRUE, action |-> NoneVal]
    ELSE IF c = C_LIST THEN [exc |-> "", truthy |-> TRUE, isdict |-> FALSE, action |-> NoneVal]
    ELSE IF c = C_FOLLOWUP THEN [exc |-> "", truthy |-> TRUE, isdict |-> TRUE, action |-> "add_followup"]
    ELSE IF c = C_APP THEN [exc |-> "", truthy |-> TRUE, isdict |-> TRUE, action |-> "create_application"]
    ELSE IF c = C_CONTACT THEN [exc |-> "", truthy |-> TRUE, isdict |-> TRUE, action |-> "add_network_contact"]
    ELSE [exc |-> "", truthy |-> TRUE, isdict |-> TRUE, action |-> "archive"]

\* json.loads(content) if isinstance(content, str) and content.strip() else {}
\* exc: the exception json.loads raises, "" for none; truthy: bool(cmd);
\* isdict: cmd has .get; action: cmd.get("action").
json_loads(content) ==
    LET c == Get(content, "") IN
    IF ~StripNonEmpty(c) THEN [exc |-> "", truthy |-> FALSE, isdict |-> TRUE, action |-> NoneVal]
    ELSE IF c = C_BAD THEN [exc |-> "JSONDecodeError", truthy |-> FALSE, isdict |-> FALSE, action |-> NoneVal]
    ELSE IF c = C_EMPTY THEN [exc |-> "", truthy |-> FALSE, isdict |-> TRUE, action |-> NoneVal]
    ELSE IF c = C_LIST THEN [exc |-> "", truthy |-> TRUE, isdict |-> FALSE, action |-> NoneVal]
    ELSE IF c = C_FOLLOWUP THEN [exc |-> "", truthy |-> TRUE, isdict |-> TRUE, action |-> "add_followup"]
    ELSE IF c = C_APP THEN [exc |-> "", truthy |-> TRUE, isdict |-> TRUE, action |-> "create_application"]
    ELSE IF c = C_CONTACT THEN [exc |-> "", truthy |-> TRUE, isdict |-> TRUE, action |-> "add_network_contact"]
    ELSE [exc |-> "", truthy |-> TRUE, isdict |-> TRUE, action |-> "archive"]

\* process_thread_command up to its create call: exc is the exception raised
\* before any request is made ("" for none), payload what is posted.
process_thread_command(cmd) ==
    IF ~cmd.isdict THEN [exc |-> "AttributeError", payload |-> NoPayload]
    ELSE IF cmd.action = "create_application"
    THEN [exc |-> "", payload |-> create_job_application("Acme", "PM", "", "", "", "", "Medium")]
    ELSE IF cmd.action = "add_followup"
    THEN [exc |-> "", payload |-> add_followup("ping recruiter", NoneVal, NoneVal, FALSE, "")]
    ELSE IF cmd.action = "add_network_contact"
    THEN [exc |-> "", payload |-> add_network_contact("Dana", "", "", "", "", "Cold")]
    ELSE [exc |-> "ValueError", payload |-> NoPayload]

\* -------------------------------------------------------------------- state
VARIABLES
    files,        \* the file system: path -> [exists, data]
    clock,        \* the wall clock, in hours
    passes,       \* invocations of the program so far
    pc,           \* where the running invocation is: idle, sync, csv, http, http_ret, done, crashed
    caller,       \* who waits for the pending create call: sync, csv or cli
    pathArg,      \* main: args.threads, the --threads argument this deployment uses
    threads,      \* run_sync: the list loaded from the queue file
    idx,          \* run_sync: position of the for loop, 1-based
    now,          \* run_sync: now
    any_synced,   \* run_sync: any_synced
    log,          \* the lines this invocation logged
    calls,        \* every invocation of process_thread_command: [pass, idx, result]
    pages,        \* the remote databases: the parent of every page created
    httpTotal,    \* requests sent since this invocation began
    method, url, json_payload,   \* http_request_with_retries: its arguments
    attempt,      \* http_request_with_retries: attempt
    sleeps,       \* http_request_with_retries: the time.sleep calls of this request
    requests,     \* http_request_with_retries: requests sent for this request
    httpResult,   \* how the request ended: none, pending, ok, RuntimeError or ValueError
    csvFile,      \* the CSV file: [exists, rows]
    db_type,      \* prefill_from_csv: db_type
    rowIdx,       \* prefill_from_csv: position of the reader, 1-based
    count,        \* prefill_from_csv: count
    bIn,          \* the optional values handed to a record builder or domain operation
    bOut          \* what it built: [op, props, inputs]

envVars   == <<files, clock, passes, pathArg>>
syncVars  == <<threads, idx, now, any_synced>>
httpVars  == <<method, url, json_payload, attempt, sleeps, requests, httpResult>>
csvVars   == <<csvFile, db_type, rowIdx, count>>
bldVars   == <<bIn, bOut>>

Line(level, msg, i) == [level |-> level, msg |-> msg, idx |-> i]

File(exists, data) == [exists |-> exists, data |-> data]

NoFiles == [x \in Paths |-> File(FALSE, <<>>)]

Stopped == pc \in {"idle", "done", "crashed"}

\* ------------------------------------------------------------ transport layer
\* How a request ended.  A RuntimeError carries what its message names: the
\* url and the retries parameter.
Result(kind, u, n) == [kind |-> kind, url |-> u, attempts |-> n]

SupportedMethods == {"post", "patch", "get"}

\* method.lower()
Lower(m) == IF m = "POST" THEN "post" ELSE IF m = "GET" THEN "get" ELSE m

\* Entering http_request_with_retries: range(1, retries+1) starts at 1.
http_request_with_retries(m, u, payload, who) ==
    /\ method' = m
    /\ url' = u
    /\ json_payload' = payload
    /\ attempt' = 1
    /\ sleeps' = <<>>
    /\ requests' = 0
    /\ httpResult' = Result("pending", "", 0)
    /\ caller' = who
    /\ pc' = "http"

notion_post(path, payload, who) == http_request_with_retries("post", path, payload, who)

notion_patch(path, payload, who) == http_request_with_retries("patch", path, payload, who)

notion_get(path, who) == http_request_with_retries("get", path, NoPayload, who)

\* A range that runs one attempt too far.
InLoop_OneMore == pc = "http" /\ attempt <= RETRIES + 1

\* The loop runs while attempt is in range(1, retries+1).
InLoop == pc = "http" /\ attempt <= RETRIES

\* raise ValueError("Unsupported HTTP method"): no except clause catches it.
HttpUnsupported ==
    /\ InLoop
    /\ Lower(method) \notin SupportedMethods
    /\ httpResult' = Result("ValueError", "", 0)
    /\ pc' = "http_ret"
    /\ UNCHANGED <<csvVars, bldVars, envVars, syncVars, caller, log, calls, pages, httpTotal,
                   method, url, json_payload, attempt, sleeps, requests>>

\* The request is sent and r.ok holds: return r.json().  A post to /pages has
\* created the page.
HttpOk ==
    /\ InLoop
    /\ Lower(method) \in SupportedMethods
    /\ requests' = requests + 1
    /\ httpTotal' = httpTotal + 1
    /\ pages' = IF Lower(method) = "post" /\ url = "/pages"
                THEN Append(pages, json_payload.parent) ELSE pages
    /\ httpResult' = Result("ok", "", 0)
    /\ pc' = "http_ret"
    /\ UNCHANGED <<csvVars, bldVars, envVars, syncVars, caller, log, calls,
                   method, url, json_payload, attempt, sleeps>>

\* A failed attempt that does not move on to the next value of the range.
HttpAttemptFails_SameAttempt ==
    /\ pc = "http" /\ attempt <= RETRIES
    /\ Lower(method) \in SupportedMethods
    /\ requests' = requests + 1
    /\ httpTotal' = httpTotal + 1
    /\ log' = Append(log, Line("WARNING", "HTTP error or request exception", 0))
    /\ sleeps' = Append(sleeps, BACKOFF * attempt)
    /\ UNCHANGED <<csvVars, bldVars, envVars, syncVars, caller, calls, pages, pc,
                   method, url, json_payload, attempt, httpResult>>

\* The attempt fails: the response is not ok (line 82) or the request raises
\* requests.RequestException (line 84).  Either way a warning is logged, then
\* time.sleep(backoff * attempt) and the next value of the range.
HttpAttemptFails ==
    /\ InLoop
    /\ Lower(method) \in SupportedMethods
    /\ requests' = requests + 1
    /\ httpTotal' = httpTotal + 1
    /\ log' = Append(log, Line("WARNING", "HTTP error or request exception", 0))
    /\ sleeps' = Append(sleeps, BACKOFF * attempt)
    /\ attempt' = attempt + 1
    /\ UNCHANGED <<csvVars, bldVars, envVars, syncVars, caller, calls, pages, pc,
                   method, url, json_payload, httpResult>>

\* The range is exhausted: raise RuntimeError(f"Failed HTTP request to {url}
\* after {retries} attempts").
HttpExhausted ==
    /\ pc = "http"
    /\ attempt > RETRIES
    /\ httpResult' = Result("RuntimeError", url, RETRIES)
    /\ pc' = "http_ret"
    /\ UNCHANGED <<csvVars, bldVars, envVars, syncVars, caller, log, calls, pages, httpTotal,
                   method, url, json_payload, attempt, sleeps, requests>>

HttpStep == HttpUnsupported \/ HttpOk \/ HttpAttemptFails \/ HttpExhausted

\* The call has returned or raised into its caller: its arguments and locals
\* are gone.
FrameDropped ==
    /\ method' = "" /\ url' = "" /\ json_payload' = NoPayload
    /\ attempt' = 0 /\ sleeps' = <<>> /\ requests' = 0
    /\ httpResult' = Result("none", "", 0)

\* ------------------------------------------------------------ queue replay
load_project_threads(path) == IF files[path].exists THEN files[path].data ELSE <<>>

\* The file system after write_project_threads(data, path).
write_project_threads(data, path) == [files EXCEPT ![path] = File(TRUE, data)]

\* The path run_sync's call write_project_threads(threads) writes: the call
\* passes no path, so the parameter's default applies.
WrittenPath(project_threads_path) == DEFAULT_THREADS_PATH

\* The hours that may have passed since the previous invocation.
Elapsed == {h \in 0..1 : clock + h <= MaxClock}

\* Lines 302-309: load, the early return on an empty list, the locals.  now is
\* the wall clock read at line 307.
RunSync(path) ==
    /\ Stopped
    /\ passes < MaxPasses
    /\ passes' = passes + 1
    /\ \E h \in Elapsed : clock' = clock + h
    /\ threads' = load_project_threads(path)
    /\ any_synced' = FALSE
    /\ idx' = 1
    /\ httpTotal' = 0
    /\ IF Len(load_project_threads(path)) = 0
       THEN /\ log' = (IF files[path].exists THEN <<>>
                       ELSE <<Line("INFO", "No project_threads.json found", 0)>>)
                      \o <<Line("INFO", "No threads to sync.", 0)>>
            /\ now' = now
            /\ pc' = "done"
       ELSE /\ log' = <<>>
            /\ now' = clock'
            /\ pc' = "sync"
    /\ UNCHANGED <<csvVars, bldVars, files, pathArg, caller, calls, pages, httpVars>>

AtEntry == pc = "sync" /\ idx <= Len(threads)

\* Lines 311-315: last_updated does not parse.
InvalidLastUpdated ==
    /\ AtEntry
    /\ ~ParseLastUpdated(threads[idx]).ok
    /\ log' = Append(log, Line("WARNING", "Invalid last_updated", idx))
    /\ idx' = idx + 1
    /\ UNCHANGED <<csvVars, bldVars, envVars, pc, caller, threads, now, any_synced,
                   calls, pages, httpTotal, httpVars>>

\* Line 317 evaluates to False: synced is truthy (the subtraction is then not
\* evaluated), or the entry is younger than two hours.
NotDue ==
    /\ AtEntry
    /\ LET t == threads[idx]
           last == ParseLastUpdated(t)
       IN /\ last.ok
          /\ \/ ~NotSynced(t)
             \/ last.aware /\ ~OldEnough(now, last)
    /\ idx' = idx + 1
    /\ UNCHANGED <<csvVars, bldVars, envVars, pc, caller, threads, now, any_synced, log,
                   calls, pages, httpTotal, httpVars>>

\* Line 317 raises TypeError: now is offset-aware and last_updated is not.  The
\* subtraction is outside every try block, so the invocation ends here.
NaiveLastUpdated ==
    /\ AtEntry
    /\ LET t == threads[idx]
           last == ParseLastUpdated(t)
       IN last.ok /\ NotSynced(t) /\ ~last.aware
    /\ pc' = "crashed"
    /\ UNCHANGED <<csvVars, bldVars, envVars, caller, syncVars, log, calls, pages, httpTotal, httpVars>>

\* Line 317 evaluates to True.
Due(t, now_) ==
    LET last == ParseLastUpdated(t)
    IN last.ok /\ NotSynced(t) /\ last.aware /\ OldEnough(now_, last)

\* Line 318 raises KeyError: t['thread_id'] outside every try block.
MissingThreadId ==
    /\ AtEntry
    /\ Due(threads[idx], now)
    /\ threads[idx].thread_id = NoKey
    /\ pc' = "crashed"
    /\ UNCHANGED <<csvVars, bldVars, envVars, caller, syncVars, log, calls, pages, httpTotal, httpVars>>

Eligible == AtEntry /\ Due(threads[idx], now) /\ threads[idx].thread_id # NoKey

EligibleLine == Line("INFO", "eligible for sync", idx)

\* Lines 319-324: json.loads raises.
ContentParseFails ==
    /\ Eligible
    /\ json_loads(threads[idx].content).exc # ""
    /\ log' = log \o <<EligibleLine, Line("ERROR", "Failed to parse content JSON", idx)>>
    /\ idx' = idx + 1
    /\ UNCHANGED <<csvVars, bldVars, envVars, pc, caller, threads, now, any_synced,
                   calls, pages, httpTotal, httpVars>>

\* Lines 330-331: cmd is falsy.
NoValidCommand ==
    /\ Eligible
    /\ LET cmd == json_loads(threads[idx].content) IN cmd.exc = "" /\ ~cmd.truthy
    /\ log' = log \o <<EligibleLine, Line("INFO", "No valid command found", idx)>>
    /\ idx' = idx + 1
    /\ UNCHANGED <<csvVars, bldVars, envVars, pc, caller, threads, now, any_synced,
                   calls, pages, httpTotal, httpVars>>

Call(pass, i, result) == [pass |-> pass, idx |-> i, result |-> result]

\* Lines 326-327 and 332-333: process_thread_command raises before any request
\* (cmd is no dict, or its action is unknown).
CommandRaises ==
    /\ Eligible
    /\ LET cmd == json_loads(threads[idx].content)
       IN cmd.exc = "" /\ cmd.truthy /\ process_thread_command(cmd).exc # ""
    /\ calls' = Append(calls, Call(passes, idx, "raised"))
    /\ log' = log \o <<EligibleLine, Line("ERROR", "Failed to process thread", idx)>>
    /\ idx' = idx + 1
    /\ UNCHANGED <<csvVars, bldVars, envVars, pc, caller, threads, now, any_synced,
                   pages, httpTotal, httpVars>>

\* Lines 326-327: process_thread_command reaches its domain operation, which
\* logs its intent and posts the payload.
Dispatch ==
    /\ Eligible
    /\ LET cmd == json_loads(threads[idx].content)
       IN /\ cmd.exc = "" /\ cmd.truthy /\ process_thread_command(cmd).exc = ""
          /\ notion_post("/pages", process_thread_command(cmd).payload, "sync")
    /\ calls' = Append(calls, Call(passes, idx, "pending"))
    /\ log' = log \o <<EligibleLine, Line("INFO", "domain operation", idx)>>
    /\ UNCHANGED <<csvVars, bldVars, envVars, syncVars, pages, httpTotal>>

\* Lines 328-329: the create call returned.
DispatchReturned ==
    /\ pc = "http_ret" /\ caller = "sync"
    /\ httpResult.kind = "ok"
    /\ threads' = [threads EXCEPT ![idx].synced = "true"]
    /\ any_synced' = TRUE
    /\ idx' = idx + 1
    /\ calls' = [calls EXCEPT ![Len(calls)].result = "ok"]
    /\ pc' = "sync"
    /\ FrameDropped
    /\ UNCHANGED <<csvVars, bldVars, envVars, caller, now, log, pages, httpTotal>>

\* A handler that marks the entry although its create call raised.
DispatchFailed_MarksSynced ==
    /\ pc = "http_ret" /\ caller = "sync"
    /\ httpResult.kind # "ok"
    /\ threads' = [threads EXCEPT ![idx].synced = "true"]
    /\ any_synced' = TRUE
    /\ log' = Append(log, Line("ERROR", "Failed to process thread", idx))
    /\ idx' = idx + 1
    /\ calls' = [calls EXCEPT ![Len(calls)].result = "raised"]
    /\ pc' = "sync"
    /\ FrameDropped
    /\ UNCHANGED <<csvVars, bldVars, envVars, caller, now, pages, httpTotal>>

\* Lines 332-333: the create call raised.
DispatchFailed ==
    /\ pc = "http_ret" /\ caller = "sync"
    /\ httpResult.kind # "ok"
    /\ log' = Append(log, Line("ERROR", "Failed to process thread", idx))
    /\ idx' = idx + 1
    /\ calls' = [calls EXCEPT ![Len(calls)].result = "raised"]
    /\ pc' = "sync"
    /\ FrameDropped
    /\ UNCHANGED <<csvVars, bldVars, envVars, caller, threads, now, any_synced,
                   pages, httpTotal>>

\* Lines 334-338: the end of the pass.
EndPass ==
    /\ pc = "sync" /\ idx > Len(threads)
    /\ IF any_synced
       THEN /\ files' = write_project_threads(threads, WrittenPath(pathArg))
            /\ log' = Append(log, Line("INFO", "Sync completed", 0))
       ELSE /\ files' = files
            /\ log' = Append(log, Line("INFO", "No threads were synced", 0))
    /\ pc' = "done"
    /\ UNCHANGED <<csvVars, bldVars, clock, passes, pathArg, caller, syncVars, calls, pages, httpTotal, httpVars>>

PassStep ==
    \/ InvalidLastUpdated \/ NotDue \/ NaiveLastUpdated \/ MissingThreadId
    \/ ContentParseFails \/ NoValidCommand \/ CommandRaises \/ Dispatch
    \/ HttpOk \/ HttpAttemptFails \/ HttpExhausted
    \/ DispatchReturned \/ DispatchFailed \/ EndPass

vars == <<files, clock, passes, pc, caller, pathArg, threads, idx, now, any_synced,
          log, calls, pages, httpTotal, method, url, json_payload, attempt, sleeps,
          requests, httpResult, csvFile, db_type, rowIdx, count, bIn, bOut>>

SyncIdle ==
    /\ threads = <<>> /\ idx = 0 /\ now = 0 /\ any_synced = FALSE

CsvIdle ==
    /\ csvFile = [exists |-> FALSE, rows |-> <<>>] /\ db_type = "" /\ rowIdx = 0 /\ count = 0

NoInput == [url |-> NoneVal, page_id |-> NoneVal, iso |-> NoneVal, email |-> NoneVal]

NotBuilt == [op |-> "none", props |-> [none |-> {}], inputs |-> [none |-> NoneVal]]

BuilderIdle == bIn = NoInput /\ bOut = NotBuilt

HttpIdle ==
    /\ method = "" /\ url = "" /\ json_payload = NoPayload
    /\ attempt = 0 /\ sleeps = <<>> /\ requests = 0 /\ httpResult = Result("none", "", 0)

\* The deployment keeps its queue under the default path or passes another
\* path with --threads; the queue file may not exist yet.  Nothing has run.
Init ==
    /\ pathArg \in Paths
    /\ \/ files = NoFiles
       \/ \E q \in QueueLists :
             files = [x \in Paths |-> IF x = pathArg THEN File(TRUE, q) ELSE File(FALSE, <<>>)]
    /\ clock = TWO_HOURS
    /\ passes = 0
    /\ pc = "idle" /\ caller = ""
    /\ SyncIdle
    /\ log = <<>> /\ calls = <<>> /\ pages = <<>> /\ httpTotal = 0
    /\ HttpIdle
    /\ CsvIdle
    /\ BuilderIdle

Next ==
    \/ RunSync(pathArg)
    \/ PassStep

Spec == Init /\ [][Next]_vars

\* --------------------------------------------------- one invocation alone
\* A single run_sync invocation, from reading the queue file to the end of
\* the pass, on every queue file and clock of Init.
PassNext ==
    \/ passes = 0 /\ RunSync(pathArg)
    \/ PassStep

PassSpec == Init /\ [][PassNext]_vars

\* ----------------------------------------------- the transport layer alone
\* What the program hands the transport layer: notion_post for a page and for
\* a database query, notion_patch and notion_get for a page, and the methods
\* http_request_with_retries accepts or rejects when called by itself.
Methods == {"post", "POST", "patch", "get", "GET", "put"}

Urls == {"/pages", "/pages/p1", "/databases/db/query"}

SamplePayload == add_followup("ping recruiter", NoneVal, NoneVal, FALSE, "")

NothingRun ==
    /\ files = NoFiles /\ clock = TWO_HOURS /\ passes = 0 /\ pathArg = DEFAULT_THREADS_PATH
    /\ pc = "idle" /\ caller = ""
    /\ log = <<>> /\ calls = <<>> /\ pages = <<>> /\ httpTotal = 0

CanCall == Stopped /\ passes < MaxCalls

CallFrame ==
    /\ passes' = passes + 1
    /\ httpTotal' = 0
    /\ log' = <<>>
    /\ UNCHANGED <<csvVars, bldVars, files, clock, pathArg, syncVars, calls, pages>>

CallNotionPost ==
    /\ CanCall
    /\ \E u \in {"/pages", "/databases/db/query"} : notion_post(u, SamplePayload, "cli")
    /\ CallFrame

CallNotionPatch ==
    /\ CanCall
    /\ notion_patch("/pages/p1", SamplePayload, "cli")
    /\ CallFrame

CallNotionGet ==
    /\ CanCall
    /\ notion_get("/pages/p1", "cli")
    /\ CallFrame

CallDirect ==
    /\ CanCall
    /\ \E m \in Methods, u \in Urls : http_request_with_retries(m, u, SamplePayload, "cli")
    /\ CallFrame

\* The caller has the response, or the exception unwinds to it.
HttpReturn ==
    /\ pc = "http_ret" /\ caller = "cli"
    /\ pc' = "done"
    /\ UNCHANGED <<csvVars, bldVars, envVars, caller, syncVars, log, calls, pages,
                   httpTotal, httpVars>>

HttpInit == NothingRun /\ SyncIdle /\ HttpIdle /\ CsvIdle /\ BuilderIdle

HttpNext ==
    \/ CallNotionPost \/ CallNotionPatch \/ CallNotionGet \/ CallDirect
    \/ HttpStep
    \/ HttpReturn

HttpSpec == HttpInit /\ [][HttpNext]_vars

\* --------------------------------------------------------------- bulk import
\* A data row as csv.DictReader yields it, by the two columns the code treats
\* differently from plain text: key is the column that names the record
\* (Company, Name, Application or Task), completed the Completed column of a
\* follow-up.  NoKey: the header has no such column; NoneVal: the row is too
\* short to reach the column, which DictReader fills with None.
Row(key, completed) == [key |-> key, completed |-> completed]

Rows == {Row("Acme", "True"), Row("", "true"), Row(NoKey, NoKey), Row("Acme", NoneVal)}

RowLists == UNION {[1..n -> Rows] : n \in 0..MaxRows}

DbTypes == {"applications", "networking", "interviews", "followups"}

\* row.get("Completed","False").lower() raises AttributeError on None.
CompletedRaises(row) == Get(row.completed, "False") = NoneVal

\* row.get("Completed","False").lower() == "true"
CompletedValue(row) == Get(row.completed, "False") \in {"true", "True"}

\* Lines 209-244: the payload of the domain operation of db_type for a row.
RowPayload(t, row) ==
    IF t = "applications"
    THEN create_job_application(Get(row.key, ""), "PM", "", "", "", "", "Medium")
    ELSE IF t = "networking"
    THEN add_network_contact(Get(row.key, ""), "", "", "", "", "Cold")
    ELSE IF t = "interviews"
    THEN add_interview(Get(row.key, ""), "", "", "", "", "Pending")
    ELSE add_followup(Get(row.key, ""), "", "", CompletedValue(row), "")

RowErrorLine(i) == Line("ERROR", "Failed to insert row", i)

\* Lines 199-206: the early return when the file is missing, the locals.
PrefillFromCsv ==
    /\ pc = "idle"
    /\ \E t \in DbTypes : db_type' = t
    /\ passes' = passes + 1
    /\ IF ~csvFile.exists
       THEN /\ log' = <<Line("ERROR", "CSV not found", 0)>>
            /\ pc' = "done"
            /\ UNCHANGED <<rowIdx, count>>
       ELSE /\ log' = <<>>
            /\ rowIdx' = 1
            /\ count' = 0
            /\ pc' = "csv"
    /\ UNCHANGED <<csvFile, bldVars, files, clock, pathArg, caller, syncVars, calls, pages,
                   httpTotal, httpVars>>

AtRow == pc = "csv" /\ rowIdx <= Len(csvFile.rows)

\* Lines 238-247: evaluating the arguments of add_followup raises.
CsvRowRaises ==
    /\ AtRow
    /\ db_type = "followups" /\ CompletedRaises(csvFile.rows[rowIdx])
    /\ log' = Append(log, RowErrorLine(rowIdx))
    /\ rowIdx' = rowIdx + 1
    /\ UNCHANGED <<csvFile, db_type, count, bldVars, envVars, pc, caller, syncVars, calls,
                   pages, httpTotal, httpVars>>

\* Lines 209-244: the domain operation is invoked and posts its payload.
CsvRowSubmit ==
    /\ AtRow
    /\ ~(db_type = "followups" /\ CompletedRaises(csvFile.rows[rowIdx]))
    /\ notion_post("/pages", RowPayload(db_type, csvFile.rows[rowIdx]), "csv")
    /\ calls' = Append(calls, Call(passes, rowIdx, "pending"))
    /\ log' = Append(log, Line("INFO", "domain operation", rowIdx))
    /\ UNCHANGED <<csvVars, bldVars, envVars, syncVars, pages, httpTotal>>

\* Line 245: the create call returned.
CsvRowInserted ==
    /\ pc = "http_ret" /\ caller = "csv"
    /\ httpResult.kind = "ok"
    /\ count' = count + 1
    /\ rowIdx' = rowIdx + 1
    /\ calls' = [calls EXCEPT ![Len(calls)].result = "ok"]
    /\ pc' = "csv"
    /\ FrameDropped
    /\ UNCHANGED <<csvFile, db_type, bldVars, envVars, caller, syncVars, log, pages,
                   httpTotal>>

\* A handler that counts the row although its create call raised.
CsvRowFailed_Counts ==
    /\ pc = "http_ret" /\ caller = "csv"
    /\ httpResult.kind # "ok"
    /\ log' = Append(log, RowErrorLine(rowIdx))
    /\ count' = count + 1
    /\ rowIdx' = rowIdx + 1
    /\ calls' = [calls EXCEPT ![Len(calls)].result = "raised"]
    /\ pc' = "csv"
    /\ FrameDropped
    /\ UNCHANGED <<csvFile, db_type, bldVars, envVars, caller, syncVars, pages,
                   httpTotal>>

\* Lines 246-247: the create call raised.
CsvRowFailed ==
    /\ pc = "http_ret" /\ caller = "csv"
    /\ httpResult.kind # "ok"
    /\ log' = Append(log, RowErrorLine(rowIdx))
    /\ rowIdx' = rowIdx + 1
    /\ calls' = [calls EXCEPT ![Len(calls)].result = "raised"]
    /\ pc' = "csv"
    /\ FrameDropped
    /\ UNCHANGED <<csvFile, db_type, count, bldVars, envVars, caller, syncVars, pages,
                   httpTotal>>

\* Line 248: the reader is exhausted; the line reports count.
CsvEnd ==
    /\ pc = "csv" /\ rowIdx > Len(csvFile.rows)
    /\ log' = Append(log, Line("INFO", "Prefilled rows", count))
    /\ pc' = "done"
    /\ UNCHANGED <<csvVars, bldVars, envVars, caller, syncVars, calls, pages, httpTotal,
                   httpVars>>

CsvInit ==
    /\ NothingRun /\ SyncIdle /\ HttpIdle /\ BuilderIdle
    /\ csvFile \in {[exists |-> FALSE, rows |-> <<>>]}
                   \cup {[exists |-> TRUE, rows |-> r] : r \in RowLists}
    /\ db_type = "" /\ rowIdx = 0 /\ count = 0

CsvNext ==
    \/ PrefillFromCsv
    \/ CsvRowRaises \/ CsvRowSubmit \/ CsvRowInserted \/ CsvRowFailed \/ CsvEnd
    \/ HttpOk \/ HttpAttemptFails \/ HttpExhausted

CsvSpec == CsvInit /\ [][CsvNext]_vars

\* ------------------------------------------------- builders and operations
\* Each optional value is absent (None), empty, or given.
Opt == {NoneVal, "", "given"}

Built(op, props, inputs) == [op |-> op, props |-> props, inputs |-> inputs]

Idle == bOut.op = "none"

BuilderFrame ==
    UNCHANGED <<bIn, csvVars, envVars, pc, caller, syncVars, log, calls, pages, httpTotal,
                httpVars>>

ApplyDateProp ==
    /\ Idle
    /\ bOut' = Built("date_prop", [value |-> date_prop(bIn.iso)], [value |-> bIn.iso])
    /\ BuilderFrame

ApplyUrlProp ==
    /\ Idle
    /\ bOut' = Built("url_prop", [value |-> url_prop(bIn.url)], [value |-> bIn.url])
    /\ BuilderFrame

ApplyRelationProp ==
    /\ Idle
    /\ bOut' = Built("relation_prop", [value |-> relation_prop(bIn.page_id)],
                     [value |-> bIn.page_id])
    /\ BuilderFrame

BuildApplication ==
    /\ Idle
    /\ bOut' = Built("create_job_application",
                     create_job_application("Acme", "PM", "", bIn.url, "", "", "Medium").properties,
                     [JDLink |-> bIn.url])
    /\ BuilderFrame

BuildContact ==
    /\ Idle
    /\ bOut' = Built("add_network_contact",
                     add_network_contact("Dana", "", "", bIn.url, bIn.email, "Cold").properties,
                     [LinkedIn |-> bIn.url, Email |-> bIn.email])
    /\ BuilderFrame

BuildInterview ==
    /\ Idle
    /\ bOut' = Built("add_interview",
                     add_interview(bIn.page_id, "Onsite", "", bIn.iso, "", "Pending").properties,
                     [Application |-> bIn.page_id, Date |-> bIn.iso])
    /\ BuilderFrame

BuildFollowup ==
    /\ Idle
    /\ bOut' = Built("add_followup",
                     add_followup("ping recruiter", bIn.page_id, bIn.iso, FALSE, "").properties,
                     [RelatedApplication |-> bIn.page_id, DueDate |-> bIn.iso])
    /\ BuilderFrame

BuilderInit ==
    /\ NothingRun /\ SyncIdle /\ HttpIdle /\ CsvIdle
    /\ bIn \in [url : Opt, page_id : Opt, iso : Opt, email : Opt]
    /\ bOut = NotBuilt

BuilderNext ==
    \/ ApplyDateProp \/ ApplyUrlProp \/ ApplyRelationProp
    \/ BuildApplication \/ BuildContact \/ BuildInterview \/ BuildFollowup

BuilderSpec == BuilderInit /\ [][BuilderNext]_vars

Running == pc \in {"sync", "http", "http_ret"}

\* ------------------------------------------------------------------ claims

\* The age of an entry whose last_updated is an ISO-8601 timestamp.
Age(t) == now - t.last_updated.t

InFlight == pc \in {"http", "http_ret"} /\ caller = "sync"

\* C1: an entry that was dispatched with success is recorded as synced in the
\* queue file that was passed to run_sync once the pass is over, and no later
\* pass over that file dispatches it again.
C1_DispatchedOnceAndRecorded ==
    /\ \A a, b \in 1..Len(calls) :
          (a < b /\ calls[a].idx = calls[b].idx) => calls[a].result # "ok"
    /\ pc = "done" =>
          \A k \in 1..Len(calls) :
             (calls[k].pass = passes /\ calls[k].result = "ok")
                => /\ files[pathArg].exists
                   /\ files[pathArg].data[calls[k].idx].synced = "true"

\* C2: process_thread_command is invoked only for the entry the loop is at, and
\* only if that entry is not synced and at least two hours old; an entry the
\* loop passes over without a word is synced or younger than two hours, so an
\* age of exactly two hours is not passed over.
C2_DispatchOnlyWhenDue ==
    [][/\ Len(calls') > Len(calls) =>
             /\ pc = "sync"
             /\ calls'[Len(calls')].idx = idx
             /\ threads[idx].synced # "true"
             /\ threads[idx].last_updated.kind = "iso"
             /\ Age(threads[idx]) >= TWO_HOURS
       /\ (pc = "sync" /\ pc' = "sync" /\ idx' = idx + 1 /\ log' = log) =>
             \/ threads[idx].synced = "true"
             \/ Age(threads[idx]) < TWO_HOURS]_vars

C2_Witness ==
    /\ InFlight
    /\ Age(threads[idx]) = TWO_HOURS
    /\ \E i \in 1..Len(threads) : i < idx /\ threads[i].last_updated.t > now

\* C3: when a pass is over, the queue file it was given holds the list with
\* the flags as the pass left them, and no other file has been written.
C3_RewritesTheQueueFile ==
    pc = "done" =>
        /\ files[pathArg].exists => files[pathArg].data = threads
        /\ any_synced => files[pathArg].exists
        /\ \A p \in Paths \ {pathArg} : ~files[p].exists

\* An entry that is due, carries its thread_id and holds content that is not
\* valid JSON, at the moment the loop is at it.
AtBadContent ==
    /\ pc = "sync" /\ idx <= Len(threads)
    /\ threads[idx].content = C_BAD
    /\ threads[idx].thread_id # NoKey
    /\ threads[idx].synced # "true"
    /\ threads[idx].last_updated.kind = "iso" /\ threads[idx].last_updated.tz # ""
    /\ Age(threads[idx]) >= TWO_HOURS

ParseErrorLine(i) == Line("ERROR", "Failed to parse content JSON", i)

\* C4: the step the loop takes at a due entry whose content is not valid JSON
\* invokes nothing, sends nothing, leaves every flag as it is and logs the
\* failure for that entry; a pass over a queue of that one entry writes no file.
C4_BadContentSkipped ==
    /\ [][AtBadContent =>
             /\ calls' = calls /\ pages' = pages /\ httpTotal' = httpTotal
             /\ threads' = threads /\ any_synced' = any_synced
             /\ log'[Len(log')] = ParseErrorLine(idx)
             /\ pc' = "sync" /\ idx' = idx + 1]_vars
    /\ [][(Running /\ Len(threads) = 1 /\ threads[1].content = C_BAD) => files' = files]_vars

C4_Witness ==
    /\ pc = "done" /\ Len(threads) = 1 /\ threads[1].content = C_BAD
    /\ \E k \in 1..Len(log) : log[k] = ParseErrorLine(1)
    /\ files[pathArg].data = threads /\ threads[1].synced = "false"

\* C7: no entry whose last_updated, content or action is malformed ends a pass
\* early: the pass goes on to its end-of-pass step, with the loop past the last
\* entry.  (The entries the claim lists all carry a thread_id.)
C7_NoEntryAbortsThePass ==
    /\ pc = "crashed" => threads[idx].thread_id = NoKey
    /\ pc = "done" => idx = Len(threads) + 1

\* C8: during a pass a synced flag changes only from not true to true, only for
\* the entry the loop is at, and only in the step that takes the successful
\* return of the create call dispatched for that entry in this pass; no step
\* turns a flag of the queue file the pass was given from true to anything else.
C8_SyncedOnlyAfterSuccess ==
    [][/\ Running =>
             \A i \in 1..Len(threads) :
                threads'[i].synced # threads[i].synced =>
                   /\ threads[i].synced # "true" /\ threads'[i].synced = "true"
                   /\ i = idx
                   /\ pc = "http_ret" /\ httpResult.kind = "ok"
                   /\ calls[Len(calls)] = Call(passes, i, "pending")
                   /\ Len(pages) > 0
       /\ files[pathArg].exists =>
             /\ files'[pathArg].exists
             /\ Len(files'[pathArg].data) = Len(files[pathArg].data)
             /\ \A i \in 1..Len(files[pathArg].data) :
                   files[pathArg].data[i].synced = "true"
                      => files'[pathArg].data[i].synced = "true"]_vars

C8_Witness ==
    /\ pc = "sync" /\ idx = 3 /\ Len(threads) = 2 /\ Len(calls) >= 2
    /\ threads[1].synced = "false" /\ calls[1] = Call(passes, 1, "raised")
    /\ threads[2].synced = "true" /\ files[pathArg].data[2].synced # "true"

\* Steps a pass still has before it: the entries left, each worth one step of
\* the loop, the attempts of a request and the return from it.
Measure ==
    (Len(threads) + 1 - idx) * (RETRIES + 4)
    + (IF pc = "sync" THEN RETRIES + 3
       ELSE IF pc = "http" THEN RETRIES + 3 - attempt
       ELSE IF pc = "http_ret" THEN 1 ELSE 0)

\* C10: a pass always has a next step until it is over, every step brings it
\* closer to its end, and up to there it has invoked process_thread_command at
\* most once and sent at most 3 requests for each entry it has reached.
C10_PassTerminates ==
    /\ [](Running => ENABLED PassStep)
    /\ [][Running => (Measure' < Measure /\ Measure' >= 0)]_vars
    /\ [](Running =>
            /\ idx <= Len(threads) + 1
            /\ httpTotal <= 3 * idx
            /\ Cardinality({k \in 1..Len(calls) : calls[k].pass = passes}) <= idx)
    /\ [](pc = "done" => httpTotal <= 3 * Len(threads))

C10_Witness ==
    /\ pc = "done" /\ Len(threads) = MaxLen
    /\ httpTotal = 3 * Len(threads)

\* The waits of a request whose first n attempts failed.
Waits(n) == [k \in 1..n |-> BACKOFF * k]

\* C5: a request is sent at most 3 times; the k-th failed attempt is followed
\* by a wait of k times backoff, so the waits grow; the terminal error comes
\* after exactly 3 requests that all failed and names the url and the attempt
\* count; a response that is ok ends the call with the attempt that got it.
C5_ThreeAttemptsThenError ==
    /\ requests <= 3
    /\ pc = "http" =>
          /\ requests = attempt - 1
          /\ Len(sleeps) = attempt - 1
          /\ \A k \in 1..Len(sleeps) : sleeps[k] = Waits(Len(sleeps))[k]
          /\ \A k \in 1..(Len(sleeps) - 1) : sleeps[k] < sleeps[k + 1]
    /\ httpResult.kind = "RuntimeError" =>
          /\ requests = 3
          /\ sleeps = <<BACKOFF, 2 * BACKOFF, 3 * BACKOFF>>
          /\ httpResult.url = url /\ httpResult.attempts = 3
    /\ httpResult.kind = "ok" =>
          /\ requests = attempt
          /\ Len(sleeps) = attempt - 1

C5_Witness ==
    /\ pc = "done" /\ httpResult.kind = "RuntimeError"
    /\ requests = 3 /\ url = "/pages" /\ passes = 2

\* The rows of the file whose key column is missing or empty.
LacksKey(i) == ~Truthy(csvFile.rows[i].key)

Logged(line) == \E k \in 1..Len(log) : log[k] = line

OkCalls == {k \in 1..Len(calls) : calls[k].result = "ok"}

ImportOver == pc = "done" /\ csvFile.exists

\* C6 as stated: a row that lacks its required field counts as a failed
\* insertion, so it is logged and is not among the rows counted.
C6_RowLackingFieldFails ==
    ImportOver =>
        /\ \A i \in 1..Len(csvFile.rows) : LacksKey(i) => Logged(RowErrorLine(i))
        /\ count <= Cardinality({i \in 1..Len(csvFile.rows) : ~LacksKey(i)})

\* C6 as amended: the domain operation is invoked at most once for a row, in
\* file order, and once for every row unless evaluating its arguments raises;
\* a row is logged as failed exactly when its operation raised, whatever its
\* fields hold; the batch reaches its last row; the reported count is the
\* number of rows whose create call returned.
C6_CountsInsertedRows ==
    /\ pc # "crashed"
    /\ \A a, b \in 1..Len(calls) : a < b => calls[a].idx < calls[b].idx
    /\ ImportOver =>
          /\ rowIdx = Len(csvFile.rows) + 1
          /\ \A i \in 1..Len(csvFile.rows) :
                \/ \E k \in 1..Len(calls) : calls[k].idx = i
                \/ db_type = "followups" /\ csvFile.rows[i].completed = NoneVal
          /\ \A i \in 1..Len(csvFile.rows) :
                Logged(RowErrorLine(i)) <=> ~(\E k \in OkCalls : calls[k].idx = i)
          /\ count = Cardinality(OkCalls)
          /\ count = Len(pages)
          /\ log[Len(log)] = Line("INFO", "Prefilled rows", count)
          /\ Cardinality({k \in 1..Len(log) : log[k].level = "ERROR"})
                = Len(csvFile.rows) - count

C6_Witness ==
    /\ ImportOver /\ Len(csvFile.rows) = 3 /\ count = 2
    /\ LacksKey(2) /\ Logged(RowErrorLine(2))
    /\ Cardinality({k \in 1..Len(log) : log[k].level = "ERROR"}) = 1

\* An explicit "no value" marker: the property names its kind and holds None.
HasNoValueMarker(prop) == \E item \in prop : item.val = NoneVal

\* C9: whatever was built, every optional property whose value was absent or
\* empty holds an explicit "no value" marker.
C9_ExplicitNoValueMarker ==
    bOut.op # "none" =>
        \A n \in DOMAIN bOut.inputs :
            ~Truthy(bOut.inputs[n]) => HasNoValueMarker(bOut.props[n])


=============================================================================
